---- MODULE Spec2Model ----
(***************************************************************************)
(* Model of the Google Calendar command line client (src/index.js).        *)
(*                                                                         *)
(* One run of the program is modelled: the argument list is fixed by Init, *)
(* main() parses it, dispatches to a command handler, the handler builds   *)
(* the CalendarClient (credential check), issues one request through       *)
(* authenticatedFetch and renders the answer.  hasToken, authenticatedFetch*)
(* and the remote service are the environment: their answers are chosen    *)
(* nondeterministically when the call is made.                             *)
(*                                                                         *)
(* JavaScript strings are TLA+ strings (sequences of characters).  Values  *)
(* of mixed JavaScript type are records [t, n, s] so that any two of them  *)
(* can be compared.                                                        *)
(*                                                                         *)
(* The functions of the file that take a value and return one without      *)
(* touching the run (buildQueryString, EventFormatter) are also applied on *)
(* their own, to inputs the command handlers never build: UnitSpec.        *)
(***************************************************************************)
EXTENDS Integers, Sequences, FiniteSets, TLC

VARIABLES
    args,       \* process.argv.slice(2)
    tokenSystem, \* what the host offers: no hasToken at all, or its answer
    parsed,     \* result of parseArgs(): [command, positional, options]
    pc,         \* position of the run: start, main, handler, client, done
    handler,    \* the command handler main() dispatched to
    calls,      \* capability calls made so far, in order (hasToken, fetch)
    out,        \* lines written to standard output, in order
    err,        \* lines written to standard error, in order
    exitCode,   \* process exit code; NoExit while the process runs
    thrown,     \* the last error caught by a handler's catch block
    params,     \* UnitSpec: the mapping handed to buildQueryString
    event,      \* UnitSpec: the event record handed to EventFormatter
    display,    \* UnitSpec: the options handed to formatSummary
    returned    \* UnitSpec: the function applied last, its argument and result

\* the variables of UnitSpec, which a run of main() leaves alone
unit == <<params, event, display, returned>>

vars == <<args, tokenSystem, parsed, pc, handler, calls, out, err, exitCode, thrown,
          unit>>

-----------------------------------------------------------------------------
(* Bounds of the model *)

\* longest argument list drawn from the small token alphabet ParseTokens
MaxArgs == 4
\* most option groups that follow the command and its positional arguments
MaxOpts == 2
\* largest number of events the remote service returns in one answer
MaxEvents == 51
\* most attendees of an event handed to EventFormatter
MaxAttendees == 2
\* most entries of a mapping handed to buildQueryString
MaxParams == 3

-----------------------------------------------------------------------------
(* JavaScript values *)

Undef    == [t |-> "undefined", n |-> 0, s |-> ""]
JSTrue   == [t |-> "boolean", n |-> 1, s |-> ""]
JSFalse  == [t |-> "boolean", n |-> 0, s |-> ""]
NaN      == [t |-> "NaN", n |-> 0, s |-> ""]
Num(k)   == [t |-> "number", n |-> k, s |-> ""]
Str(x)   == [t |-> "string", n |-> 0, s |-> x]
\* an instant, as the string Date.prototype.toISOString() returns for it:
\* kind s relative to the clock of the run, n a number of days or 0
Time(kind, k) == [t |-> "time", n |-> k, s |-> kind]

JSNull   == [t |-> "null", n |-> 0, s |-> ""]
\* an object with the properties fields (a function from names to values)
Obj(fields) == [t |-> "object", n |-> 0, s |-> "", f |-> fields]
\* an array of the values items
Arr(items) == [t |-> "array", n |-> Len(items), s |-> "", f |-> items]

\* v?.k: undefined when v is not an object or has no property k
Get(v, k) == IF v.t = "object" /\ k \in DOMAIN v.f THEN v.f[k] ELSE Undef

\* v.length of an array or a string
LengthOf(v) ==
    CASE v.t = "array"  -> Num(v.n)
      [] v.t = "string" -> Num(Len(v.s))
      [] OTHER          -> Undef

\* ToBoolean: undefined, null, false, 0, NaN and "" are falsy
Truthy(v) ==
    CASE v.t = "undefined" -> FALSE
      [] v.t = "null"      -> FALSE
      [] v.t = "boolean"   -> v.n = 1
      [] v.t = "NaN"       -> FALSE
      [] v.t = "number"    -> v.n # 0
      [] v.t = "string"    -> v.s # ""
      [] OTHER             -> TRUE

\* a || b
Or(a, b) == IF Truthy(a) THEN a ELSE b

\* !v
Not(v) == IF Truthy(v) THEN JSFalse ELSE JSTrue

\* String.prototype.startsWith
startsWith(s, p) == Len(s) >= Len(p) /\ SubSeq(s, 1, Len(p)) = p

\* String.prototype.slice(k) for 0 <= k
slice(s, k) == SubSeq(s, k + 1, Len(s))

\* String.prototype.indexOf, 1-based; 0 when p does not occur in s
indexOf(s, p) ==
    LET hits == {i \in 1..(Len(s) - Len(p) + 1) : SubSeq(s, i, i + Len(p) - 1) = p}
    IN  IF hits = {} THEN 0 ELSE CHOOSE i \in hits : \A j \in hits : i <= j

\* String.prototype.includes
includes(s, p) == p = "" \/ indexOf(s, p) > 0

\* s.split('=', 2): the first two of the pieces s falls into at its '=' signs
split2(s) ==
    LET i == indexOf(s, "=")
    IN  IF i = 0 THEN <<s>>
        ELSE LET rest == SubSeq(s, i + 1, Len(s))
                 j    == indexOf(rest, "=")
             IN  <<SubSeq(s, 1, i - 1),
                   IF j = 0 THEN rest ELSE SubSeq(rest, 1, j - 1)>>

Digits == {"0", "1", "2", "3", "4", "5", "6", "7", "8", "9"}

DigitVal(c) ==
    CASE c = "0" -> 0 [] c = "1" -> 1 [] c = "2" -> 2 [] c = "3" -> 3
      [] c = "4" -> 4 [] c = "5" -> 5 [] c = "6" -> 6 [] c = "7" -> 7
      [] c = "8" -> 8 [] c = "9" -> 9

RECURSIVE digitsValue(_, _)
\* value of the longest prefix of decimal digits of s, continuing from acc
digitsValue(s, acc) ==
    IF s = "" \/ SubSeq(s, 1, 1) \notin Digits THEN acc
    ELSE digitsValue(slice(s, 1), 10 * acc + DigitVal(SubSeq(s, 1, 1)))

\* parseInt(v) with no radix, for the decimal strings a command line carries:
\* an optional sign, then the longest prefix of digits; NaN when there is none.
\* A non-string argument is converted to a string first (true -> "true").
parseInt(v) ==
    IF v.t # "string" THEN NaN
    ELSE LET neg  == startsWith(v.s, "-")
             body == IF neg \/ startsWith(v.s, "+") THEN slice(v.s, 1) ELSE v.s
         IN  IF body = "" \/ SubSeq(body, 1, 1) \notin Digits THEN NaN
             ELSE Num((IF neg THEN -1 ELSE 1) * digitsValue(body, 0))

-----------------------------------------------------------------------------
(* parseArgs *)

\* parsed.command is null or a string: <<>> or <<s>>
Null == <<>>

\* options[key], undefined when the key was never assigned
Opt(options, key) == IF key \in DOMAIN options THEN options[key] ELSE Undef

\* options[key] = value
SetOpt(options, key, value) ==
    [k \in DOMAIN options \cup {key} |-> IF k = key THEN value ELSE options[k]]

NoOptions == [k \in {} |-> Undef]

\* NextIsValue with the bound of the look-ahead one too small
NextIsValueShort(a, i) == i + 1 < Len(a) /\ ~startsWith(a[i + 1], "-")

\* NextIsValue that takes any following token as the value
NextIsValueAny(a, i) == i + 1 <= Len(a)

\* does the token after position i exist and not start with '-'
NextIsValue(a, i) == i + 1 <= Len(a) /\ ~startsWith(a[i + 1], "-")

\* one iteration of the for loop, at the 1-based position st.i
parseArgsStep(a, st) ==
    LET arg == a[st.i]
    IN  IF startsWith(arg, "-")
        THEN IF startsWith(arg, "--")
             THEN LET kv  == split2(slice(arg, 2))
                      key == kv[1]
                  IN  IF Len(kv) = 2
                      THEN [st EXCEPT !.options = SetOpt(@, key, Str(kv[2])),
                                      !.i = @ + 1]
                      ELSE IF NextIsValue(a, st.i)
                      THEN [st EXCEPT !.options = SetOpt(@, key, Str(a[st.i + 1])),
                                      !.i = @ + 2]
                      ELSE [st EXCEPT !.options = SetOpt(@, key, JSTrue),
                                      !.i = @ + 1]
             ELSE LET flag == slice(arg, 1)
                  IN  IF NextIsValue(a, st.i)
                      THEN [st EXCEPT !.options = SetOpt(@, flag, Str(a[st.i + 1])),
                                      !.i = @ + 2]
                      ELSE [st EXCEPT !.options = SetOpt(@, flag, JSTrue),
                                      !.i = @ + 1]
        ELSE IF st.command = Null
             THEN [st EXCEPT !.command = <<arg>>, !.i = @ + 1]
             ELSE [st EXCEPT !.positional = Append(@, arg), !.i = @ + 1]

RECURSIVE parseArgsLoop(_, _)
parseArgsLoop(a, st) ==
    IF st.i > Len(a) THEN st ELSE parseArgsLoop(a, parseArgsStep(a, st))

parseArgs(a) ==
    LET st == parseArgsLoop(a, [command |-> Null, positional |-> <<>>,
                                options |-> NoOptions, i |-> 1])
    IN  [command |-> st.command, positional |-> st.positional,
         options |-> st.options]

\* positional[0]: undefined when there is none
Positional0(p) == IF Len(p.positional) > 0 THEN Str(p.positional[1]) ELSE Undef

-----------------------------------------------------------------------------
(* Conversions to strings *)

RECURSIVE natToString(_)
natToString(k) ==
    LET d == CASE k % 10 = 0 -> "0" [] k % 10 = 1 -> "1" [] k % 10 = 2 -> "2"
               [] k % 10 = 3 -> "3" [] k % 10 = 4 -> "4" [] k % 10 = 5 -> "5"
               [] k % 10 = 6 -> "6" [] k % 10 = 7 -> "7" [] k % 10 = 8 -> "8"
               [] k % 10 = 9 -> "9"
    IN  IF k < 10 THEN d ELSE natToString(k \div 10) \o d

\* Number.prototype.toString for integers
intToString(k) == IF k < 0 THEN "-" \o natToString(0 - k) ELSE natToString(k)

\* The ISO string of an instant.  The clock of the run is not modelled: the
\* instant "now" is written NOW, k days after it NOW+kD, local midnight of
\* today DAY+0D and of tomorrow DAY+1D.  An instant parsed from a date is
\* written as toISOString() writes it.
timeToString(v) ==
    CASE v.s = "now"      -> IF v.n = 0 THEN "NOW"
                             ELSE IF v.n < 0 THEN "NOW" \o intToString(v.n) \o "D"
                             ELSE "NOW+" \o intToString(v.n) \o "D"
      [] v.s = "midnight" -> "DAY+" \o intToString(v.n) \o "D"
      [] v.s = "epoch"    -> "1970-01-01T00:00:00.00" \o intToString(v.n) \o "Z"
      [] OTHER            -> v.s \o "T00:00:00.000Z"

\* String(v)
JSString(v) ==
    CASE v.t = "undefined" -> "undefined"
      [] v.t = "null"      -> "null"
      [] v.t = "boolean"   -> IF v.n = 1 THEN "true" ELSE "false"
      [] v.t = "NaN"       -> "NaN"
      [] v.t = "number"    -> intToString(v.n)
      [] v.t = "time"      -> timeToString(v)
      [] OTHER             -> v.s

\* encodeURIComponent of one character: the reserved characters that occur in
\* the strings of this model are escaped, every other character is unreserved
encodeChar(c) ==
    CASE c = ":" -> "%3A" [] c = " " -> "%20" [] c = "=" -> "%3D"
      [] c = "&" -> "%26" [] c = "+" -> "%2B" [] c = "/" -> "%2F"
      [] c = "@" -> "%40" [] c = "%" -> "%25" [] c = "?" -> "%3F"
      [] c = "#" -> "%23" [] c = "," -> "%2C"
      [] OTHER   -> c

RECURSIVE encodeString(_)
encodeString(s) ==
    IF s = "" THEN "" ELSE encodeChar(SubSeq(s, 1, 1)) \o encodeString(slice(s, 1))

\* encodeURIComponent(v)
encodeURIComponent(v) == encodeString(JSString(v))

\* one entry of an object literal
Entry(k, v) == [key |-> k, value |-> v]

RECURSIVE queryParts(_)
\* the parts array of buildQueryString: one "key=value" per entry, in order,
\* entries whose value is null or undefined left out
queryParts(entries) ==
    IF entries = <<>> THEN <<>>
    ELSE LET e == Head(entries)
         IN  IF e.value.t # "undefined" /\ e.value.t # "null"
             THEN <<encodeURIComponent(Str(e.key)) \o "=" \o encodeURIComponent(e.value)>>
                  \o queryParts(Tail(entries))
             ELSE queryParts(Tail(entries))

RECURSIVE join(_, _)
\* Array.prototype.join
join(parts, sep) ==
    IF parts = <<>> THEN ""
    ELSE IF Len(parts) = 1 THEN parts[1]
    ELSE parts[1] \o sep \o join(Tail(parts), sep)

RECURSIVE queryPartsTruthy(_)
\* queryParts that leaves out every falsy value: if (value)
queryPartsTruthy(entries) ==
    IF entries = <<>> THEN <<>>
    ELSE LET e == Head(entries)
         IN  IF Truthy(e.value)
             THEN <<encodeURIComponent(Str(e.key)) \o "=" \o encodeURIComponent(e.value)>>
                  \o queryPartsTruthy(Tail(entries))
             ELSE queryPartsTruthy(Tail(entries))

\* buildQueryString that tests the value for truth
buildQueryStringTruthy(entries) == join(queryPartsTruthy(entries), "&")

buildQueryString(entries) == join(queryParts(entries), "&")

-----------------------------------------------------------------------------
(* CalendarClient: each method yields the endpoint it hands to request() *)

baseUrl == "https://www.googleapis.com/calendar/v3"

\* new Date(v).toISOString(): a value or the RangeError it throws
Threw(msg)  == [ok |-> FALSE, value |-> Undef, message |-> msg]
Returned(v) == [ok |-> TRUE, value |-> v, message |-> ""]

\* YYYY-MM-DD with digits in the right places (month and day not range checked:
\* the model's dates are calendar dates)
IsIsoDate(s) ==
    /\ Len(s) = 10
    /\ \A i \in {1, 2, 3, 4, 6, 7, 9, 10} : SubSeq(s, i, i) \in Digits
    /\ SubSeq(s, 5, 5) = "-" /\ SubSeq(s, 8, 8) = "-"

\* new Date(v).toISOString() for an option value: true is one millisecond
\* past the epoch, an ISO date is midnight UTC of that date, any other string
\* of the model is not a date and gives an Invalid Date
dateToISOString(v) ==
    IF v.t = "boolean" THEN Returned(Time("epoch", v.n))
    ELSE IF v.t = "string" /\ IsIsoDate(v.s) THEN Returned(Time(v.s, 0))
    ELSE Threw("Invalid time value")

listCalendars(options) ==
    "/users/me/calendarList?" \o buildQueryString(<<
        Entry("maxResults", Or(Opt(options, "maxResults"), Num(250))),
        Entry("showDeleted", Or(Opt(options, "showDeleted"), JSFalse)),
        Entry("showHidden", Or(Opt(options, "showHidden"), JSFalse))>>)

listEvents(calendarId, options) ==
    "/calendars/" \o encodeURIComponent(calendarId) \o "/events?" \o
    buildQueryString(<<
        Entry("timeMin", Opt(options, "timeMin")),
        Entry("timeMax", Opt(options, "timeMax")),
        Entry("q", Opt(options, "query")),
        Entry("maxResults", Or(Opt(options, "maxResults"), Num(250))),
        Entry("singleEvents",
              IF Opt(options, "singleEvents") = JSFalse THEN JSFalse ELSE JSTrue),
        Entry("orderBy", Or(Opt(options, "orderBy"), Str("startTime"))),
        Entry("showDeleted", Or(Opt(options, "showDeleted"), JSFalse))>>)

getEvent(calendarId, eventId) ==
    "/calendars/" \o encodeURIComponent(calendarId) \o "/events/" \o
    encodeURIComponent(eventId)

\* { ...a, ...b }: the entries of b override those of a
Spread(a, b) ==
    [k \in DOMAIN a \cup DOMAIN b |-> IF k \in DOMAIN b THEN b[k] ELSE a[k]]

getTodayEvents(calendarId, options) ==
    Returned(Str(listEvents(calendarId, Spread(
        [timeMin |-> Time("midnight", 0), timeMax |-> Time("midnight", 1),
         maxResults |-> Or(Opt(options, "maxResults"), Num(50))],
        options))))

\* endDate is an Invalid Date when days is NaN, and toISOString() then throws
getUpcomingEvents(days, calendarId, options) ==
    IF days.t = "NaN" THEN Threw("Invalid time value")
    ELSE Returned(Str(listEvents(calendarId, Spread(
        [timeMin |-> Time("now", 0), timeMax |-> Time("now", days.n),
         maxResults |-> Or(Opt(options, "maxResults"), Num(100))],
        options))))

searchEventsRequest(query, options) ==
    listEvents(Or(Opt(options, "calendar"), Str("primary")), Spread(
        [q |-> query, timeMin |-> Opt(options, "timeMin"),
         timeMax |-> Opt(options, "timeMax"),
         maxResults |-> Or(Opt(options, "maxResults"), Num(50))],
        options))

-----------------------------------------------------------------------------
(* The environment: the credential capability and the remote service *)

\* typeof hasToken === 'undefined' / hasToken('google-calendar') false / true
TokenStates == {"absent", "unconfigured", "configured"}

Response(kind, status, statusText, message, n) ==
    [kind |-> kind, status |-> status, statusText |-> statusText,
     message |-> message, n |-> n]

\* a response with ok = true whose decoded body carries n items
OkResponse(n) == Response("ok", 200, "OK", "", n)

\* responses with ok = false: two whose body carries error.message and
\* error.code (the HTTP status), one whose body carries no error object
HttpErrors ==
    {Response("http", 404, "Not Found", "Not Found", 0),
     Response("http", 403, "Forbidden", "Network permission denied by policy", 0),
     Response("http", 500, "Internal Server Error", "", 0)}

\* authenticatedFetch throws instead of returning a response
TransportErrors ==
    {Response("throw", 0, "", "Network permission denied: www.googleapis.com", 0),
     Response("throw", 0, "", "Request timeout", 0)}

\* numbers of events in the answer to an events request of upcoming/list
ItemCounts == {0, 1, 10, 11, 23, 50, MaxEvents}

\* numbers of items in the other answers
FewCounts == {0, 2}

Responses(counts) ==
    {OkResponse(n) : n \in counts} \cup HttpErrors \cup TransportErrors

\* an Error object as the handlers read it: message, status, code, data
Error(message, status, code, data) ==
    [message |-> message, status |-> status, code |-> code, data |-> data]

NoError == Error("", Undef, Undef, "")

\* CalendarClient.request(): the decoded body (its item count) or the error
\* the method throws, for the answer resp of authenticatedFetch
request(resp) ==
    LET raised ==
            IF resp.kind = "throw"
            THEN Error(resp.message, Undef, Undef, "")
            ELSE Error(IF resp.message # "" THEN resp.message
                       ELSE "HTTP " \o intToString(resp.status) \o ": "
                            \o resp.statusText,
                       Num(resp.status),
                       IF resp.message # "" THEN Num(resp.status) ELSE Undef,
                       "body" \o intToString(resp.status))
    IN  IF resp.kind = "ok" THEN [ok |-> TRUE, n |-> resp.n, error |-> NoError]
        ELSE IF includes(raised.message, "Network permission denied")
        THEN [ok |-> FALSE, n |-> 0, error |->
                Error("Network permission required: --allow-network=googleapis.com",
                      Undef, Undef, "")]
        ELSE [ok |-> FALSE, n |-> 0, error |-> raised]

\* entries of the variable calls
HasTokenCall(answer) ==
    [op |-> "hasToken", method |-> "", url |-> "google-calendar", status |-> 0,
     statusText |-> "", message |-> "", ok |-> answer, n |-> 0]
\* a fetch and its answer: status 0 when authenticatedFetch threw, message
\* the message of what it threw or of the error object of the body
FetchCall(endpoint, resp) ==
    [op |-> "fetch", method |-> "GET", url |-> baseUrl \o endpoint,
     status |-> resp.status, statusText |-> resp.statusText,
     message |-> resp.message,
     ok |-> resp.kind = "ok", n |-> resp.n]

-----------------------------------------------------------------------------
(* Rendering *)

\* display limits of showUpcoming
SummaryDisplay == 10
FullDisplay == 50

\* the day the i-th event of an answer starts on: the service returns events
\* in start order, here two a day
EventDay(i) == (i + 1) \div 2

\* formatDate of the start of event i
EventDate(i) == "day" \o intToString(EventDay(i))

\* the block console.log prints for event i
EventBlock(i) == "event " \o intToString(i)

RECURSIVE upcomingLoop(_, _, _, _, _)
\* the for loop of showUpcoming over events.items, from item i on
upcomingLoop(n, i, count, currentDate, maxDisplay) ==
    IF i > n \/ count >= maxDisplay THEN <<>>
    ELSE (IF EventDate(i) # currentDate
          THEN <<"--- " \o EventDate(i) \o " ---">> ELSE <<>>)
         \o <<EventBlock(i)>>
         \o upcomingLoop(n, i + 1, count + 1, EventDate(i), maxDisplay)

\* maxDisplayOf that lets --max raise or lower the display limit
maxDisplayFromMax(options) ==
    IF Truthy(Opt(options, "summary")) THEN SummaryDisplay
    ELSE IF Truthy(Opt(options, "max")) /\ parseInt(Opt(options, "max")).t = "number"
    THEN parseInt(Opt(options, "max")).n
    ELSE FullDisplay

\* maxDisplay of showUpcoming
maxDisplayOf(options) ==
    IF Truthy(Opt(options, "summary")) THEN SummaryDisplay ELSE FullDisplay

\* what showUpcoming prints for an answer of n events
upcomingLines(n, days, options) ==
    <<"Upcoming events (next " \o JSString(days) \o " days):">> \o
    (IF n > 0
     THEN upcomingLoop(n, 1, 0, "", maxDisplayOf(options)) \o
          (IF n > maxDisplayOf(options)
           THEN <<"... and " \o intToString(n - maxDisplayOf(options))
                    \o " more events",
                  "Use --max to increase limit or remove --summary for more details">>
           ELSE <<>>)
     ELSE <<"No upcoming events in the next " \o JSString(days) \o " days">>)

\* JSON.stringify of a decoded body of n items
jsonLine(n) == "JSON items=" \o intToString(n)

todayLines(n) ==
    <<"Events for today:">> \o
    (IF n > 0 THEN [i \in 1..n |-> EventBlock(i)] \o <<>>
     ELSE <<"No events scheduled for today">>)

RECURSIVE searchLoop(_, _)
searchLoop(n, i) ==
    IF i > n THEN <<>>
    ELSE <<EventDate(i), EventBlock(i)>> \o searchLoop(n, i + 1)

searchLines(n, query) ==
    <<"Search results for \"" \o query \o "\":">> \o
    (IF n > 0 THEN searchLoop(n, 1)
     ELSE <<"No events found matching \"" \o query \o "\"">>)

RECURSIVE calendarLoop(_, _, _)
calendarLoop(n, i, summary) ==
    IF i > n THEN <<>>
    ELSE <<"calendar " \o intToString(i) \o (IF i = 1 THEN " (PRIMARY)" ELSE "")>>
         \o (IF summary THEN <<>> ELSE <<"   ID: " \o intToString(i), "">>)
         \o calendarLoop(n, i + 1, summary)

calendarLines(n, options) ==
    <<"Found " \o intToString(n) \o " calendar(s):">> \o
    calendarLoop(n, 1, Truthy(Opt(options, "summary")))

authLines(n) ==
    <<"Authentication successful",
      "Access to " \o intToString(n) \o " calendar(s) confirmed",
      "Using secure token system (credentials not exposed to sandbox)">> \o
    (IF n > 0 THEN <<"Primary calendar: calendar 1">> ELSE <<>>)

eventLines ==
    <<"Event Details:", "Title: (No title)", "Time: All day", "Date: day1",
      "Status: confirmed", "Created:", "Updated:">>

\* the remediation instructions the constructor writes to standard error
remediationLines ==
    <<"Google Calendar token not configured.", "",
      "Add to ~/.pave/permissions.yaml:", "tokens: google-calendar: ...", "",
      "Then set environment variables:",
      "  GOOGLE_CALENDAR_CLIENT_ID, GOOGLE_CALENDAR_CLIENT_SECRET, GOOGLE_CALENDAR_REFRESH_TOKEN">>

\* the first argument of console.error in the catch block of each handler
catchPrefix(h) ==
    CASE h = "checkAuth"     -> "Authentication failed:"
      [] h = "listCalendars" -> "Failed to list calendars:"
      [] h = "showToday"     -> "Failed to get today's events:"
      [] h = "showUpcoming"  -> "Failed to get upcoming events:"
      [] h = "searchEvents"  -> "Search failed:"
      [] h = "showEvent"     -> "Failed to get event:"

\* what the catch block of handler h writes for the error e
catchLines(h, e) ==
    <<catchPrefix(h) \o " " \o e.message>> \o
    (IF h = "checkAuth" /\ includes(e.message, "not configured")
     THEN <<"Configure google-calendar token in ~/.pave/permissions.yaml">>
     ELSE <<>>)

\* the JSON error envelope main() writes in its catch block under --json
envelope(e) ==
    "{error: " \o e.message \o ", status: " \o JSString(e.status)
    \o ", data: " \o e.data \o "}"

\* what the catch block of main() writes for an error that reaches it.  No
\* error does: every handler catches inside its own try and exits there.
mainCatchLines(e, options) ==
    <<"Execution failed: " \o e.message>> \o
    (IF includes(e.message, "Secure token system")
     THEN <<"This script must run in sandbox: pave-run gcal.js">> ELSE <<>>) \o
    (IF Truthy(Opt(options, "json")) THEN <<envelope(e)>> ELSE <<>>)

-----------------------------------------------------------------------------
(* EventFormatter and the time helper it uses *)

\* YYYY-MM-DDTHH:MM:SSZ with digits in the right places
IsIsoDateTime(s) ==
    /\ Len(s) = 20
    /\ IsIsoDate(SubSeq(s, 1, 10))
    /\ SubSeq(s, 11, 11) = "T" /\ SubSeq(s, 14, 14) = ":"
    /\ SubSeq(s, 17, 17) = ":" /\ SubSeq(s, 20, 20) = "Z"
    /\ \A i \in {12, 13, 15, 16, 18, 19} : SubSeq(s, i, i) \in Digits

\* new Date(s).toLocaleTimeString('en-US', {hour: 'numeric', minute:
\* '2-digit', hour12: true}) where the local time zone is UTC: a date without
\* a time is midnight UTC, a string that is no date gives an Invalid Date
toLocaleTimeString(s) ==
    IF IsIsoDate(s) THEN "12:00 AM"
    ELSE IF IsIsoDateTime(s)
    THEN LET h == digitsValue(SubSeq(s, 12, 13), 0)
         IN  intToString(IF h % 12 = 0 THEN 12 ELSE h % 12) \o ":"
             \o SubSeq(s, 15, 16) \o (IF h < 12 THEN " AM" ELSE " PM")
    ELSE "Invalid Date"

\* formatTime(dateTimeStr)
formatTime(v) == IF ~Truthy(v) THEN "" ELSE toLocaleTimeString(JSString(v))

\* isAllDay read off the date of the start instead of its dateTime
isAllDayByDate(ev) ==
    IF Truthy(Get(Get(ev, "start"), "date")) THEN JSTrue ELSE JSFalse

\* const isAllDay = !event.start?.dateTime
isAllDay(ev) == Not(Get(Get(ev, "start"), "dateTime"))

\* EventFormatter.format(event)
format(ev) ==
    Obj([id            |-> Get(ev, "id"),
         summary       |-> Or(Get(ev, "summary"), Str("(No title)")),
         description   |-> Or(Get(ev, "description"), Str("")),
         location      |-> Or(Get(ev, "location"), Str("")),
         start         |-> Or(Get(Get(ev, "start"), "dateTime"),
                              Get(Get(ev, "start"), "date")),
         end           |-> Or(Get(Get(ev, "end"), "dateTime"),
                              Get(Get(ev, "end"), "date")),
         isAllDay      |-> isAllDay(ev),
         status        |-> Get(ev, "status"),
         created       |-> Get(ev, "created"),
         updated       |-> Get(ev, "updated"),
         htmlLink      |-> Get(ev, "htmlLink"),
         attendees     |-> Or(Get(ev, "attendees"), Arr(<<>>)),
         attendeeCount |-> LengthOf(Or(Get(ev, "attendees"), Arr(<<>>))),
         organizer     |-> Get(ev, "organizer"),
         recurrence    |-> Get(ev, "recurrence"),
         reminders     |-> Get(ev, "reminders")])

\* EventFormatter.formatTimeRange(event)
formatTimeRange(ev) ==
    LET formatted == format(ev)
    IN  IF Truthy(Get(formatted, "isAllDay")) THEN "All day"
        ELSE formatTime(Get(formatted, "start")) \o " - "
             \o formatTime(Get(formatted, "end"))

RECURSIVE padEnd(_, _)
\* String.prototype.padEnd(k): spaces are added up to the length k
padEnd(s, k) == IF Len(s) >= k THEN s ELSE padEnd(s \o " ", k)

\* the icons that open the continuation lines of formatSummary
LocationIcon == "(pin)"
AttendeesIcon == "(people)"
StatusIcon == "(warning)"

\* a > b of two values, false when either is not a number
Greater(a, b) == a.t = "number" /\ b.t = "number" /\ a.n > b.n

\* formatted.status !== 'confirmed'
notConfirmed(formatted) == Get(formatted, "status") # Str("confirmed")

\* EventFormatter.formatSummary(event, options): the lines are joined by \n
formatSummary(ev, options) ==
    LET formatted == format(ev)
        timeRange == formatTimeRange(ev)
    IN  padEnd(timeRange, 20) \o " " \o JSString(Get(formatted, "summary"))
        \o (IF Truthy(Opt(options, "showLocation"))
                /\ Truthy(Get(formatted, "location"))
            THEN "\n" \o padEnd("", 22) \o " " \o LocationIcon \o " "
                 \o JSString(Get(formatted, "location"))
            ELSE "")
        \o (IF Truthy(Opt(options, "showAttendees"))
                /\ Greater(Get(formatted, "attendeeCount"), Num(0))
            THEN "\n" \o padEnd("", 22) \o " " \o AttendeesIcon \o " "
                 \o JSString(Get(formatted, "attendeeCount")) \o " attendee(s)"
            ELSE "")
        \o (IF Truthy(Opt(options, "showStatus")) /\ notConfirmed(formatted)
            THEN "\n" \o padEnd("", 22) \o " " \o StatusIcon \o "  "
                 \o JSString(Get(formatted, "status"))
            ELSE "")

-----------------------------------------------------------------------------
(* The argument lists of the model *)

\* tokens of every shape parseArgs tells apart
ParseTokens == {"today", "x", "", "-c", "--json", "--k=a=b", "-"}

RECURSIVE SeqsUpTo(_, _)
\* the sequences over S of length at most k
SeqsUpTo(S, k) ==
    IF k = 0 THEN {<<>>}
    ELSE LET shorter == SeqsUpTo(S, k - 1)
         IN  shorter \cup {Append(q, x) : q \in shorter, x \in S}

\* the commands of the dispatch table, help, and commands outside the table
Commands ==
    {"auth", "calendars", "today", "upcoming", "list", "search", "event",
     "help", "delete", "remove", "bogus"}

Positionals == {<<>>, <<"primary">>, <<"14">>}

\* the options the help text documents, each long option with its alias
OptionGroups ==
    <<  <<"--json">>, <<"--summary">>, <<"--help">>, <<"--help=">>, <<"--yes">>,
        <<"--max", "20">>, <<"--max", "0">>, <<"-n", "20">>,
        <<"--calendar", "work">>, <<"-c", "work">>,
        <<"--days", "3">>, <<"-d", "3">>,
        <<"--from", "2026-01-01">>, <<"-f", "2026-01-01">>,
        <<"--to", "2026-01-31">>, <<"-t", "2026-01-31">>  >>

RECURSIVE OptionTails(_, _)
\* at most room option groups, from the first-th on, in the order of OptionGroups
OptionTails(first, room) ==
    IF room = 0 \/ first > Len(OptionGroups) THEN {<<>>}
    ELSE OptionTails(first + 1, room) \cup
         {OptionGroups[first] \o t : t \in OptionTails(first + 1, room - 1)}

\* [command] [positional] [options...]
CommandLines ==
    {c \o p \o o : c \in {<<>>} \cup {<<x>> : x \in Commands},
                   p \in Positionals, o \in OptionTails(1, MaxOpts)}

\* option names and option values for the three ways of writing an option
OptionKeys == {"k", "c", "max"}
OptionValues == {"x", "", "20", "a=b"}

\* --k=v, --k v and -k v
OptionForms(k, v) == {<<"--" \o k \o "=" \o v>>, <<"--" \o k, v>>, <<"-" \o k, v>>}

OptionLines == UNION {OptionForms(k, v) : k \in OptionKeys, v \in OptionValues}

ArgLists == SeqsUpTo(ParseTokens, MaxArgs) \cup CommandLines \cup OptionLines

-----------------------------------------------------------------------------
(* The run *)

NoExit == 0 - 1

\* no function was applied
NotApplied == [fn |-> "", arg |-> Undef, value |-> Undef]

Init ==
    /\ args \in ArgLists
    /\ tokenSystem \in TokenStates
    /\ parsed = [command |-> Null, positional |-> <<>>, options |-> NoOptions]
    /\ pc = "start"
    /\ handler = ""
    /\ calls = <<>>
    /\ out = <<>>
    /\ err = <<>>
    /\ exitCode = NoExit
    /\ thrown = NoError
    /\ params = <<>>
    /\ event = Undef
    /\ display = NoOptions
    /\ returned = NotApplied

\* process.exit(code), or the end of main() with code 0
Exit(code) == pc' = "done" /\ exitCode' = code

\* main(): const parsed = parseArgs()
Main_parseArgs ==
    /\ pc = "start"
    /\ parsed' = parseArgs(args)
    /\ pc' = "main"
    /\ UNCHANGED <<unit, args, tokenSystem, handler, calls, out, err, exitCode, thrown>>

\* wantsHelp that tests the command against null only
wantsHelpIfNull(p) ==
    \/ p.command = Null
    \/ p.command = <<"help">>
    \/ Truthy(Opt(p.options, "help"))

\* !parsed.command || parsed.command === 'help' || parsed.options.help
wantsHelp(p) ==
    \/ p.command = Null
    \/ p.command = <<"">>
    \/ p.command = <<"help">>
    \/ Truthy(Opt(p.options, "help"))

\* main(): printHelp(); return
Main_printHelp ==
    /\ pc = "main"
    /\ wantsHelp(parsed)
    /\ out' = Append(out, "USAGE:")
    /\ Exit(0)
    /\ UNCHANGED <<unit, args, tokenSystem, parsed, handler, calls, err, thrown>>

\* the dispatch table of main(): command -> handler
handlerOf(command) ==
    CASE command = "auth"      -> "checkAuth"
      [] command = "calendars" -> "listCalendars"
      [] command = "today"     -> "showToday"
      [] command = "upcoming"  -> "showUpcoming"
      [] command = "search"    -> "searchEvents"
      [] command = "event"     -> "showEvent"
      [] command = "list"      -> "showUpcoming"
      [] OTHER                 -> ""

\* main(): one case of the switch other than list and default
Main_case ==
    /\ pc = "main"
    /\ ~wantsHelp(parsed)
    /\ parsed.command[1] # "list"
    /\ handlerOf(parsed.command[1]) # ""
    /\ handler' = handlerOf(parsed.command[1])
    /\ pc' = "handler"
    /\ UNCHANGED <<unit, args, tokenSystem, parsed, calls, out, err, exitCode, thrown>>

\* main(): case 'list': parsed.options.days = '365'; showUpcoming(parsed)
Main_caseList ==
    /\ pc = "main"
    /\ ~wantsHelp(parsed)
    /\ parsed.command[1] = "list"
    /\ parsed' = [parsed EXCEPT !.options = SetOpt(@, "days", Str("365"))]
    /\ handler' = "showUpcoming"
    /\ pc' = "handler"
    /\ UNCHANGED <<unit, args, tokenSystem, calls, out, err, exitCode, thrown>>

\* main(): default: unknown command
Main_default ==
    /\ pc = "main"
    /\ ~wantsHelp(parsed)
    /\ handlerOf(parsed.command[1]) = ""
    /\ err' = err \o <<"Unknown command: " \o parsed.command[1],
                       "Run: node gcal.js help">>
    /\ Exit(1)
    /\ UNCHANGED <<unit, args, tokenSystem, parsed, handler, calls, out, thrown>>

\* !args.positional || args.positional.length === 0
noPositional(p) == Len(p.positional) = 0

\* searchEvents(): the query is missing
SearchEvents_usage ==
    /\ pc = "handler"
    /\ handler = "searchEvents"
    /\ noPositional(parsed)
    /\ err' = err \o <<"Search query required",
                       "Usage: node gcal.js search \"meeting\"">>
    /\ Exit(1)
    /\ UNCHANGED <<unit, args, tokenSystem, parsed, handler, calls, out, thrown>>

\* showEvent(): the event id is missing
ShowEvent_usage ==
    /\ pc = "handler"
    /\ handler = "showEvent"
    /\ noPositional(parsed)
    /\ err' = err \o <<"Event ID required",
                       "Usage: node gcal.js event <eventId>">>
    /\ Exit(1)
    /\ UNCHANGED <<unit, args, tokenSystem, parsed, handler, calls, out, thrown>>

\* reachesClient of a handler that builds its client before it looks at
\* the positional arguments
reachesClientFirst == pc = "handler"

\* the handler reaches new CalendarClient()
reachesClient ==
    /\ pc = "handler"
    /\ ~(handler \in {"searchEvents", "showEvent"} /\ noPositional(parsed))

\* the catch block of the running handler: console.error, process.exit(1)
Catch(e) ==
    /\ thrown' = e
    /\ err' = err \o catchLines(handler, e)
    /\ Exit(1)

\* constructor: typeof hasToken === 'undefined'
Client_noTokenSystem ==
    /\ reachesClient
    /\ tokenSystem = "absent"
    /\ Catch(Error("Secure token system not available. Use: pave-run gcal.js",
                   Undef, Undef, ""))
    /\ UNCHANGED <<unit, args, tokenSystem, parsed, handler, calls, out>>

\* constructor: hasToken('google-calendar') is false
Client_notConfigured ==
    /\ reachesClient
    /\ tokenSystem = "unconfigured"
    /\ calls' = Append(calls, HasTokenCall(FALSE))
    /\ thrown' = Error("Google Calendar token not configured", Undef, Undef, "")
    /\ err' = err \o remediationLines \o catchLines(handler, thrown')
    /\ Exit(1)
    /\ UNCHANGED <<unit, args, tokenSystem, parsed, handler, out>>

\* Client_constructed that does not look at the answer of hasToken
Client_constructedUnchecked ==
    /\ pc = "handler"
    /\ ~(handler \in {"searchEvents", "showEvent"} /\ Len(parsed.positional) = 0)
    /\ tokenSystem # "absent"
    /\ calls' = Append(calls, [op |-> "hasToken", method |-> "",
                               url |-> "google-calendar", status |-> 0,
                               statusText |-> "", message |-> "",
                               ok |-> tokenSystem = "configured", n |-> 0])
    /\ pc' = "client"
    /\ UNCHANGED <<unit, args, tokenSystem, parsed, handler, out, err, exitCode, thrown>>

\* constructor: hasToken('google-calendar') is true
Client_constructed ==
    /\ reachesClient
    /\ tokenSystem = "configured"
    /\ calls' = Append(calls, HasTokenCall(TRUE))
    /\ pc' = "client"
    /\ UNCHANGED <<unit, args, tokenSystem, parsed, handler, out, err, exitCode, thrown>>

\* the rest of a handler once the client exists: the endpoint is requested,
\* the service answers one of the responses, and the handler prints the raw
\* body under --json, else plain[n] for a decoded body of n items, or falls
\* into its catch block
Fetch(endpoint, responses, plain) ==
    \E resp \in responses :
        /\ calls' = Append(calls, FetchCall(endpoint, resp))
        /\ LET res == request(resp)
           IN  IF res.ok
               THEN /\ out' = out \o (IF Truthy(Opt(parsed.options, "json"))
                                      THEN <<jsonLine(res.n)>> ELSE plain[res.n])
                    /\ Exit(0)
                    /\ UNCHANGED <<err, thrown>>
               ELSE /\ Catch(res.error)
                    /\ UNCHANGED out

\* args.options.calendar || args.options.c || 'primary'
calendarIdOf(options) ==
    Or(Or(Opt(options, "calendar"), Opt(options, "c")), Str("primary"))

\* args.options.max ? parseInt(args.options.max) : dflt
maxResultsOf(options, dflt) ==
    IF Truthy(Opt(options, "max")) THEN parseInt(Opt(options, "max")) ELSE Num(dflt)

\* checkAuth(): client.listCalendars({ maxResults: 1 })
CheckAuth ==
    /\ pc = "client" /\ handler = "checkAuth"
    /\ \E resp \in Responses(FewCounts) :
        /\ calls' = Append(calls,
                FetchCall(listCalendars([maxResults |-> Num(1)]), resp))
        /\ LET res == request(resp)
           IN  IF res.ok
               THEN /\ out' = out \o authLines(res.n)
                    /\ Exit(0)
                    /\ UNCHANGED <<err, thrown>>
               ELSE /\ Catch(res.error)
                    /\ UNCHANGED out
    /\ UNCHANGED <<unit, args, tokenSystem, parsed, handler>>

\* listCalendars(args)
ListCalendars ==
    /\ pc = "client" /\ handler = "listCalendars"
    /\ Fetch(listCalendars([maxResults |-> maxResultsOf(parsed.options, 250)]),
             Responses(FewCounts),
             [n \in FewCounts |-> calendarLines(n, parsed.options)])
    /\ UNCHANGED <<unit, args, tokenSystem, parsed, handler>>

\* the endpoint showToday requests
todayRequest(p) ==
    getTodayEvents(calendarIdOf(p.options),
                   [maxResults |-> maxResultsOf(p.options, 50)])

\* showToday(args)
ShowToday ==
    /\ pc = "client" /\ handler = "showToday"
    /\ Fetch(todayRequest(parsed).value.s, Responses(FewCounts),
             [n \in FewCounts |-> todayLines(n)])
    /\ UNCHANGED <<unit, args, tokenSystem, parsed, handler>>

\* days of showUpcoming
daysOf(p) ==
    IF Truthy(Positional0(p)) THEN parseInt(Positional0(p))
    ELSE IF Truthy(Opt(p.options, "days")) THEN parseInt(Opt(p.options, "days"))
    ELSE IF Truthy(Opt(p.options, "d")) THEN parseInt(Opt(p.options, "d"))
    ELSE Num(7)

\* the endpoint showUpcoming requests, or the error getUpcomingEvents throws
upcomingRequest(p) ==
    getUpcomingEvents(daysOf(p), calendarIdOf(p.options),
                      [maxResults |-> maxResultsOf(p.options, 100)])

\* showUpcoming(args)
ShowUpcoming ==
    /\ pc = "client" /\ handler = "showUpcoming"
    /\ LET req == upcomingRequest(parsed)
       IN  IF req.ok
           THEN Fetch(req.value.s, Responses(ItemCounts),
                      [n \in ItemCounts |->
                          upcomingLines(n, daysOf(parsed), parsed.options)])
           ELSE /\ Catch(Error(req.message, Undef, Undef, ""))
                /\ UNCHANGED <<calls, out>>
    /\ UNCHANGED <<unit, args, tokenSystem, parsed, handler>>

\* options.timeMin / options.timeMax of searchEvents(args): the ISO string of
\* the first truthy of the long option and its alias, or the RangeError
searchTime(options, long, short) ==
    IF Truthy(Opt(options, long)) \/ Truthy(Opt(options, short))
    THEN dateToISOString(Or(Opt(options, long), Opt(options, short)))
    ELSE Returned(Undef)

\* the endpoint searchEvents requests, or the error thrown before the request
searchRequest(p) ==
    LET from == searchTime(p.options, "from", "f")
        to   == searchTime(p.options, "to", "t")
        base == [calendar |-> calendarIdOf(p.options),
                 maxResults |-> maxResultsOf(p.options, 50)]
        withFrom == IF Truthy(from.value) THEN SetOpt(base, "timeMin", from.value)
                    ELSE base
        withTo   == IF Truthy(to.value) THEN SetOpt(withFrom, "timeMax", to.value)
                    ELSE withFrom
    IN  IF ~from.ok THEN from
        ELSE IF ~to.ok THEN to
        ELSE Returned(Str(searchEventsRequest(Str(p.positional[1]), withTo)))

\* searchEvents(args) with a query
SearchEvents ==
    /\ pc = "client" /\ handler = "searchEvents"
    /\ LET req == searchRequest(parsed)
       IN  IF req.ok
           THEN Fetch(req.value.s, Responses(FewCounts),
                      [n \in FewCounts |-> searchLines(n, parsed.positional[1])])
           ELSE /\ Catch(Error(req.message, Undef, Undef, ""))
                /\ UNCHANGED <<calls, out>>
    /\ UNCHANGED <<unit, args, tokenSystem, parsed, handler>>

\* the endpoint showEvent requests
eventRequest(p) == getEvent(calendarIdOf(p.options), Str(p.positional[1]))

\* showEvent(args) with an event id
ShowEvent ==
    /\ pc = "client" /\ handler = "showEvent"
    /\ Fetch(eventRequest(parsed), Responses({1}), [n \in {1} |-> eventLines])
    /\ UNCHANGED <<unit, args, tokenSystem, parsed, handler>>

Next ==
    \/ Main_parseArgs
    \/ Main_printHelp
    \/ Main_case
    \/ Main_caseList
    \/ Main_default
    \/ SearchEvents_usage
    \/ ShowEvent_usage
    \/ Client_noTokenSystem
    \/ Client_notConfigured
    \/ Client_constructed
    \/ CheckAuth
    \/ ListCalendars
    \/ ShowToday
    \/ ShowUpcoming
    \/ SearchEvents
    \/ ShowEvent

Spec == Init /\ [][Next]_vars

-----------------------------------------------------------------------------
(* UnitSpec: buildQueryString and EventFormatter applied on their own *)

ParamKeys == {"q", "maxResults", "a b", "k=&"}

ParamValues == {Undef, JSNull, Num(0), JSFalse, Str(""), Str("a=b&c d")}

KeysOf(m) == {m[i].key : i \in DOMAIN m}

RECURSIVE Mappings(_)
\* the mappings of at most k entries, as Object.entries lists them: in
\* insertion order, no key twice
Mappings(k) ==
    IF k = 0 THEN {<<>>}
    ELSE LET shorter == Mappings(k - 1)
             longer  == {Append(m, Entry(key, v)) :
                            m \in shorter, key \in ParamKeys, v \in ParamValues}
         IN  shorter \cup {m \in longer : Cardinality(KeysOf(m)) = Len(m)}

\* start and end of an event: absent, all-day, timed, and a start with both
Starts ==
    {Undef,
     Obj([date |-> Str("2026-01-05")]),
     Obj([dateTime |-> Str("2026-01-05T09:30:00Z")]),
     Obj([dateTime |-> Str("2026-01-05T09:30:00Z"), date |-> Str("2026-01-05")])}

Ends ==
    {Undef,
     Obj([date |-> Str("2026-01-06")]),
     Obj([dateTime |-> Str("2026-01-05T13:00:00Z")])}

Attendee(i) == Obj([email |-> Str("guest" \o intToString(i) \o "@example.com")])

AttendeeLists ==
    {Undef} \cup {Arr([i \in 1..k |-> Attendee(i)] \o <<>>) : k \in 0..MaxAttendees}

\* an event record; an optional field that is absent is undefined
EventRecord(summary, location, start, end, status, attendees) ==
    Obj([id |-> Str("e1"), summary |-> summary, location |-> location,
         start |-> start, end |-> end, status |-> status,
         attendees |-> attendees, htmlLink |-> Str("https://calendar/e1")])

Events ==
    {EventRecord(summary, location, start, end, status, attendees) :
        summary \in {Undef, Str("Standup")},
        location \in {Undef, Str(""), Str("Room 1")},
        start \in Starts, end \in Ends,
        status \in {Undef, Str("confirmed"), Str("tentative")},
        attendees \in AttendeeLists}

\* the options a handler hands to formatSummary: showLocation is
\* !args.options.summary, the other two are args.options.full
Displays ==
    [showLocation : {JSTrue, JSFalse}, showAttendees : {Undef, JSTrue},
     showStatus : {Undef, JSTrue}]

UnitInit ==
    /\ args = <<>>
    /\ tokenSystem = "absent"
    /\ parsed = [command |-> Null, positional |-> <<>>, options |-> NoOptions]
    /\ pc = "unit"
    /\ handler = ""
    /\ calls = <<>>
    /\ out = <<>>
    /\ err = <<>>
    /\ exitCode = NoExit
    /\ thrown = NoError
    /\ returned = NotApplied
    /\ \/ params \in Mappings(MaxParams) /\ event = Undef /\ display = NoOptions
       \/ params = <<>> /\ event \in Events /\ display \in Displays

Return(fn, arg, value) == returned' = [fn |-> fn, arg |-> arg, value |-> value]

\* buildQueryString(params)
Unit_buildQueryString ==
    /\ returned = NotApplied /\ event = Undef
    /\ Return("buildQueryString", Undef, Str(buildQueryString(params)))
    /\ UNCHANGED <<args, tokenSystem, parsed, pc, handler, calls, out, err,
                   exitCode, thrown, params, event, display>>

\* EventFormatter.format(event)
Unit_format ==
    /\ returned = NotApplied /\ event # Undef
    /\ Return("format", event, format(event))
    /\ UNCHANGED <<args, tokenSystem, parsed, pc, handler, calls, out, err,
                   exitCode, thrown, params, event, display>>

\* EventFormatter.format(formatted): the record format returned goes in again
Unit_formatAgain ==
    /\ returned.fn = "format"
    /\ Return("format again", returned.value, format(returned.value))
    /\ UNCHANGED <<args, tokenSystem, parsed, pc, handler, calls, out, err,
                   exitCode, thrown, params, event, display>>

\* EventFormatter.formatTimeRange(event)
Unit_formatTimeRange ==
    /\ returned = NotApplied /\ event # Undef
    /\ Return("formatTimeRange", event, Str(formatTimeRange(event)))
    /\ UNCHANGED <<args, tokenSystem, parsed, pc, handler, calls, out, err,
                   exitCode, thrown, params, event, display>>

\* EventFormatter.formatSummary(event, display)
Unit_formatSummary ==
    /\ returned = NotApplied /\ event # Undef
    /\ Return("formatSummary", event, Str(formatSummary(event, display)))
    /\ UNCHANGED <<args, tokenSystem, parsed, pc, handler, calls, out, err,
                   exitCode, thrown, params, event, display>>

UnitNext ==
    \/ Unit_buildQueryString
    \/ Unit_format
    \/ Unit_formatAgain
    \/ Unit_formatTimeRange
    \/ Unit_formatSummary

UnitSpec == UnitInit /\ [][UnitNext]_vars

-----------------------------------------------------------------------------
(* Vocabulary of the properties *)

RECURSIVE splitAll(_, _)
\* String.prototype.split(sep) for a one-character separator
splitAll(s, sep) ==
    LET i == indexOf(s, sep)
    IN  IF i = 0 THEN <<s>>
        ELSE <<SubSeq(s, 1, i - 1)>> \o splitAll(SubSeq(s, i + 1, Len(s)), sep)

\* the key=value parts of the query string of a URL
QueryPartsOf(url) ==
    LET i == indexOf(url, "?")
    IN  IF i = 0 THEN {}
        ELSE LET parts == splitAll(SubSeq(url, i + 1, Len(url)), "&")
             IN  {parts[k] : k \in DOMAIN parts}

Range(q) == {q[k] : k \in DOMAIN q}

FetchCalls == {c \in Range(calls) : c.op = "fetch"}

Done == pc = "done"

\* the commands of the switch in main()
DispatchTable ==
    {"auth", "calendars", "today", "upcoming", "search", "event", "list"}

Min(a, b) == IF a < b THEN a ELSE b

IsEventBlock(line) == startsWith(line, "event ")

IsMoreNotice(line) == startsWith(line, "... and ")

Dash(a, i) == startsWith(a[i], "-")

-----------------------------------------------------------------------------
(* C1 *)

\* C1: whenever the search handler has issued its events request for a
\* non-empty query Q, the query string of the request carries q = Q.
C1_SearchSendsQuery ==
    \A c \in FetchCalls :
        (handler = "searchEvents" /\ parsed.positional[1] # "")
            => ("q=" \o encodeString(parsed.positional[1])) \in QueryPartsOf(c.url)

(* C2 *)

\* C2: when a run with --json ends after the remote service answered a
\* non-success status S, the exit code is 1 and standard error holds the JSON
\* error envelope {error, status, data} with status S.
C2_JsonErrorEnvelope ==
    \A c \in FetchCalls :
        (Done /\ Truthy(Opt(parsed.options, "json")) /\ ~c.ok /\ c.status # 0)
            => /\ exitCode = 1
               /\ thrown.status = Num(c.status)
               /\ envelope(thrown) \in Range(err)

(* C3 *)

\* C3: every run of the list command that gets its client requests the
\* events of the window from now to now + 365 days, whatever positional
\* arguments and options it was given.
C3_ListWindow ==
    (Done /\ parsed.command = <<"list">> /\ handler = "showUpcoming"
          /\ HasTokenCall(TRUE) \in Range(calls))
        => \E c \in FetchCalls :
              /\ "timeMin=NOW" \in QueryPartsOf(c.url)
              /\ "timeMax=NOW%2B365D" \in QueryPartsOf(c.url)

(* C4 *)

\* C4: once search or event is entered with no positional argument, the run
\* never checks the credential nor fetches, and it ends with the usage error
\* on standard error and exit code 1.
C4_UsageBeforeCredential ==
    (handler \in {"searchEvents", "showEvent"} /\ noPositional(parsed))
        => /\ calls = <<>>
           /\ pc \in {"handler", "done"}
           /\ Done => /\ exitCode = 1
                      /\ out = <<>>
                      /\ err[1] = (IF handler = "searchEvents"
                                   THEN "Search query required"
                                   ELSE "Event ID required")

C4_Witness ==
    /\ Done /\ handler = "searchEvents" /\ noPositional(parsed)
    /\ exitCode = 1 /\ calls = <<>>
    /\ tokenSystem = "unconfigured"

(* C5 *)

ConfigurationMessage == "Google Calendar token not configured"
EnvironmentMessage == "Secure token system not available. Use: pave-run gcal.js"

\* C5: in a run whose handler builds the client, if hasToken reports false
\* the run ends with the remediation instructions and then the configuration
\* error on standard error, exit code 1 and no fetch; if hasToken does not
\* exist it ends with the environment error, exit code 1, and neither a
\* credential check nor a fetch; a handler goes on only with the credential.
C5_NoCredentialNoFetch ==
    /\ pc = "client" => tokenSystem = "configured"
    /\ (Done /\ handler # ""
             /\ ~(handler \in {"searchEvents", "showEvent"} /\ noPositional(parsed)))
        => /\ tokenSystem = "unconfigured"
                => /\ calls = <<HasTokenCall(FALSE)>>
                   /\ exitCode = 1
                   /\ thrown.message = ConfigurationMessage
                   /\ SubSeq(err, 1, Len(remediationLines)) = remediationLines
                   /\ includes(err[Len(remediationLines) + 1], ConfigurationMessage)
                   /\ out = <<>>
           /\ tokenSystem = "absent"
                => /\ calls = <<>>
                   /\ exitCode = 1
                   /\ thrown.message = EnvironmentMessage
                   /\ includes(err[1], EnvironmentMessage)
                   /\ out = <<>>

C5_Witness ==
    /\ Done /\ handler = "showToday" /\ tokenSystem = "unconfigured"
    /\ exitCode = 1 /\ calls = <<HasTokenCall(FALSE)>>

(* C6 *)

\* C6: a run of delete <id> (or remove <id>) with --yes issues the delete
\* request, and one without --yes, which obtains no confirmation, issues none.
C6_DeleteAfterConfirmation ==
    (Done /\ parsed.command \in {<<"delete">>, <<"remove">>}
          /\ ~noPositional(parsed) /\ ~Truthy(Opt(parsed.options, "help"))
          /\ tokenSystem = "configured")
        => IF Truthy(Opt(parsed.options, "yes"))
           THEN \E c \in FetchCalls : c.method = "DELETE"
           ELSE \A c \in FetchCalls : c.method # "DELETE"

(* C7 *)

\* C7 as claimed: a run whose parsed command is null or help, or whose
\* options hold help, ends with the usage text, exit code 0 and no capability
\* call; a run whose command is any other string outside the dispatch table
\* ends with the unknown-command message, exit code 1 and no capability call.
C7_Original ==
    Done =>
        IF \/ parsed.command = Null
           \/ parsed.command = <<"help">>
           \/ "help" \in DOMAIN parsed.options
        THEN exitCode = 0 /\ out = <<"USAGE:">> /\ calls = <<>>
        ELSE parsed.command[1] \notin DispatchTable
                => /\ exitCode = 1
                   /\ err = <<"Unknown command: " \o parsed.command[1],
                              "Run: node gcal.js help">>
                   /\ calls = <<>>

\* C7 as amended: the usage text and exit code 0 are the outcome when the
\* parsed command is null, the empty string or help, or the option help has
\* a truthy value (true or a non-empty string); the unknown-command message
\* and exit code 1 are the outcome for every other command outside the
\* dispatch table; neither makes a capability call.
C7_HelpOrUnknown ==
    Done =>
        IF \/ parsed.command \in {Null, <<"">>, <<"help">>}
           \/ Opt(parsed.options, "help") = JSTrue
           \/ (Opt(parsed.options, "help").t = "string"
                  /\ Opt(parsed.options, "help").s # "")
        THEN exitCode = 0 /\ out = <<"USAGE:">> /\ err = <<>> /\ calls = <<>>
        ELSE parsed.command[1] \notin DispatchTable
                => /\ exitCode = 1
                   /\ out = <<>>
                   /\ err = <<"Unknown command: " \o parsed.command[1],
                              "Run: node gcal.js help">>
                   /\ calls = <<>>

C7_Witness ==
    /\ Done /\ parsed.command = <<"">> /\ Len(parsed.positional) > 0
    /\ exitCode = 0 /\ out = <<"USAGE:">>

(* C8 *)

\* C8: a run of upcoming that prints (no --json) an answer of n events
\* prints the blocks of the first min(n, D) events in fetched order, D = 10
\* under --summary and 50 otherwise whatever --max says, and prints the
\* "N more" notice exactly when n > D, with N = n - D.
C8_DisplayLimit ==
    \A c \in FetchCalls :
        (Done /\ parsed.command = <<"upcoming">> /\ c.ok
              /\ ~Truthy(Opt(parsed.options, "json")))
            => LET D == IF Truthy(Opt(parsed.options, "summary")) THEN 10 ELSE 50
                   blocks  == SelectSeq(out, IsEventBlock)
                   notices == SelectSeq(out, IsMoreNotice)
               IN  /\ Len(blocks) = Min(c.n, D)
                   /\ \A i \in 1..Len(blocks) : blocks[i] = EventBlock(i)
                   /\ notices = IF c.n > D
                                THEN <<"... and " \o intToString(c.n - D)
                                         \o " more events">>
                                ELSE <<>>

C8_Witness ==
    /\ Done /\ parsed.command = <<"upcoming">>
    /\ parsed.positional = <<"14">>
    /\ Opt(parsed.options, "summary") = JSTrue
    /\ Opt(parsed.options, "max") = Str("20")
    /\ \E c \in FetchCalls : c.ok /\ c.n = 23
    /\ Len(SelectSeq(out, IsEventBlock)) = 10
    /\ "... and 13 more events" \in Range(out)

(* C9 *)

\* the long option a documented single-letter alias stands for
LongOf(token) ==
    CASE token = "-c" -> "--calendar"
      [] token = "-n" -> "--max"
      [] token = "-d" -> "--days"
      [] token = "-f" -> "--from"
      [] token = "-t" -> "--to"
      [] OTHER        -> token

\* the argument list with every alias written as its long option
Longhand(a) == [i \in DOMAIN a |-> LongOf(a[i])]

\* the endpoint handler h requests for the parsed arguments p
EndpointOf(h, p) ==
    CASE h = "checkAuth"     -> listCalendars([maxResults |-> Num(1)])
      [] h = "listCalendars" ->
            listCalendars([maxResults |-> maxResultsOf(p.options, 250)])
      [] h = "showToday"     -> todayRequest(p).value.s
      [] h = "showUpcoming"  -> upcomingRequest(p).value.s
      [] h = "searchEvents"  -> searchRequest(p).value.s
      [] h = "showEvent"     -> eventRequest(p)

\* C9: the request a run issues is the request the same handler issues when
\* every documented alias of the argument list is written as its long option.
C9_AliasSameRequest ==
    \A c \in FetchCalls :
        LET long == parseArgs(Longhand(args))
            p    == IF parsed.command = <<"list">>
                    THEN [long EXCEPT !.options = SetOpt(@, "days", Str("365"))]
                    ELSE long
        IN  c.url = baseUrl \o EndpointOf(handler, p)

(* C10 *)

\* the first position from i on whose token does not start with '-'; 0 if none
RECURSIVE FirstPlain(_, _)
FirstPlain(a, i) ==
    IF i > Len(a) THEN 0 ELSE IF ~Dash(a, i) THEN i ELSE FirstPlain(a, i + 1)

\* C10 as claimed: the parsed command is the first token that does not start
\* with '-' (null when there is none) and positional holds, in order, the
\* later tokens that do not start with '-'.
C10_Original ==
    pc # "start" =>
        LET k == FirstPlain(args, 1)
        IN  IF k = 0 THEN parsed.command = Null /\ parsed.positional = <<>>
            ELSE /\ parsed.command = <<args[k]>>
                 /\ parsed.positional =
                        SelectSeq(SubSeq(args, k + 1, Len(args)),
                                  LAMBDA tok : ~startsWith(tok, "-"))

\* token i is taken as the value of the option before it: it does not start
\* with '-', and the token before it is an option that carries no '=' value
Consumed(a, i) ==
    /\ i > 1
    /\ ~Dash(a, i)
    /\ Dash(a, i - 1)
    /\ ~(startsWith(a[i - 1], "--") /\ indexOf(a[i - 1], "=") > 0)

\* the positions of the tokens that neither start with '-' nor are values
RECURSIVE FreeTokens(_, _)
FreeTokens(a, i) ==
    IF i > Len(a) THEN <<>>
    ELSE (IF ~Dash(a, i) /\ ~Consumed(a, i) THEN <<a[i]>> ELSE <<>>)
         \o FreeTokens(a, i + 1)

\* C10 as amended: among the tokens that neither start with '-' nor are
\* taken as the value of the option before them, the first is the parsed
\* command (null when there is none) and the later ones are positional, in
\* the order they appear.
C10_CommandAndPositional ==
    pc # "start" =>
        LET free == FreeTokens(args, 1)
        IN  IF free = <<>> THEN parsed.command = Null /\ parsed.positional = <<>>
            ELSE parsed.command = <<Head(free)>> /\ parsed.positional = Tail(free)

C10_Witness ==
    /\ pc = "main"
    /\ args = <<"-c", "x", "today", "x">>
    /\ parsed.command = <<"today">>
    /\ parsed.positional = <<"x">>

(* C11 *)

\* C11: for every option name k and value v that does not start with '-',
\* the argument lists [--k=v], [--k, v] and [-k, v] all parse to the options
\* {k: v}, command null and no positional argument.
C11_EquivalentForms ==
    pc = "main" =>
        \A k \in OptionKeys, v \in OptionValues :
            args \in OptionForms(k, v)
                => parsed = [command |-> Null, positional |-> <<>>,
                             options |-> SetOpt(NoOptions, k, Str(v))]

(* C12 *)

HasEq(token) == indexOf(token, "=") > 0

\* the token at position i is a long or short option and carries no '='
OptionAt(a, i) == Dash(a, i) /\ ~HasEq(a[i])

\* the key an option token assigns: the text after the dashes, for a long
\* option up to its first '='
KeyOf(token) ==
    IF startsWith(token, "--")
    THEN LET body == slice(token, 2)
         IN  IF HasEq(body) THEN SubSeq(body, 1, indexOf(body, "=") - 1) ELSE body
    ELSE slice(token, 1)

\* the token after position i is absent or starts with '-'
NextFlagLike(a, i) == i = Len(a) \/ Dash(a, i + 1)

\* no option token after position i assigns the key of the token at i
LastWithKey(a, i) ==
    \A j \in (i + 1)..Len(a) : Dash(a, j) => KeyOf(a[j]) # KeyOf(a[i])

\* command and positional are made of the tokens that are neither options
\* nor values of options, so a consumed token is in neither
ValuesLeftOut(a, p) ==
    LET free == FreeTokens(a, 1)
    IN  IF free = <<>> THEN p.command = Null /\ p.positional = <<>>
        ELSE p.command = <<Head(free)>> /\ p.positional = Tail(free)

\* what the claim says of the option token at position i of a
OptionValueAt(a, i, p) ==
    IF NextFlagLike(a, i)
    THEN /\ Opt(p.options, KeyOf(a[i])) = JSTrue
         /\ i < Len(a) => KeyOf(a[i + 1]) \in DOMAIN p.options
    ELSE /\ Opt(p.options, KeyOf(a[i])) = Str(a[i + 1])
         /\ Consumed(a, i + 1)
         /\ ValuesLeftOut(a, p)

\* C12 as claimed: for every option token without '=' at position i, if the
\* next token is absent or starts with '-' the option's value is true and the
\* next token is parsed as an option itself; else the next token is the
\* option's value and is neither the command nor a positional argument.
C12_Original ==
    pc = "main" =>
        \A i \in 1..Len(args) : OptionAt(args, i) => OptionValueAt(args, i, parsed)

\* C12 as amended: the same, of every option token without '=' whose key no
\* later option token assigns again (the last assignment of a key wins).
C12_FlagNeverConsumed ==
    pc = "main" =>
        \A i \in 1..Len(args) :
            (OptionAt(args, i) /\ LastWithKey(args, i))
                => OptionValueAt(args, i, parsed)

C12_Witness ==
    /\ pc = "main"
    /\ args = <<"--json", "-c", "x">>
    /\ parsed.command = Null /\ parsed.positional = <<>>
    /\ Opt(parsed.options, "json") = JSTrue
    /\ Opt(parsed.options, "c") = Str("x")

(* C13 *)

\* C13: a long option token with '=' whose key no later token assigns again
\* gives the key between -- and its first '=' the value of everything after
\* that '=', further '=' included, and the token after it is not consumed.
C13_SplitOnFirstEquals ==
    pc = "main" =>
        \A i \in 1..Len(args) :
            (startsWith(args[i], "--") /\ HasEq(args[i]) /\ LastWithKey(args, i))
                => LET body == slice(args[i], 2)
                       e    == indexOf(body, "=")
                   IN  /\ Opt(parsed.options, SubSeq(body, 1, e - 1))
                            = Str(SubSeq(body, e + 1, Len(body)))
                       /\ ValuesLeftOut(args, parsed)

(* C14 *)

AllowanceMessage == "Network permission required: --allow-network=googleapis.com"

\* C14: a handler that got a response with ok = false caught an error whose
\* message is the message of the body (HTTP <status>: <statusText> when the
\* body has none), whose status is the HTTP status, whose code is the code
\* of the body and whose data is the body; after a transport failure it
\* caught the allowance error if the failure says Network permission denied
\* and the failure itself otherwise; a successful response gives the handler
\* the decoded body as it is (the handlers that know --json print it).
C14_RequestError ==
    \A c \in FetchCalls :
        Done =>
            IF c.ok
            THEN /\ thrown = NoError
                 /\ (Truthy(Opt(parsed.options, "json")) /\ handler # "checkAuth")
                        => out = <<jsonLine(c.n)>>
            ELSE IF c.status # 0
            THEN /\ thrown.message =
                        (IF c.message # "" THEN c.message
                         ELSE "HTTP " \o intToString(c.status) \o ": " \o c.statusText)
                 /\ thrown.status = Num(c.status)
                 /\ thrown.code = (IF c.message # "" THEN Num(c.status) ELSE Undef)
                 /\ thrown.data = "body" \o intToString(c.status)
            ELSE thrown.message =
                    (IF includes(c.message, "Network permission denied")
                     THEN AllowanceMessage ELSE c.message)

(* C15 *)

\* the character a %XX escape stands for
decodeChar(code) ==
    CASE code = "%3A" -> ":" [] code = "%20" -> " " [] code = "%3D" -> "="
      [] code = "%26" -> "&" [] code = "%2B" -> "+" [] code = "%2F" -> "/"
      [] code = "%40" -> "@" [] code = "%25" -> "%" [] code = "%3F" -> "?"
      [] code = "%23" -> "#" [] code = "%2C" -> ","
      [] OTHER        -> code

RECURSIVE decodeURIComponent(_)
decodeURIComponent(s) ==
    IF s = "" THEN ""
    ELSE IF SubSeq(s, 1, 1) = "%" /\ Len(s) >= 3
    THEN decodeChar(SubSeq(s, 1, 3)) \o decodeURIComponent(slice(s, 3))
    ELSE SubSeq(s, 1, 1) \o decodeURIComponent(slice(s, 1))

\* the key=value pieces of a query string, none for the empty string
PiecesOf(q) == IF q = "" THEN <<>> ELSE splitAll(q, "&")

\* a piece decoded: the key before its first '=', the value after it
DecodedPiece(piece) ==
    LET i == indexOf(piece, "=")
    IN  [key   |-> decodeURIComponent(SubSeq(piece, 1, i - 1)),
         value |-> decodeURIComponent(SubSeq(piece, i + 1, Len(piece)))]

IsSet(e) == e.value # Undef /\ e.value # JSNull

\* C15: the string buildQueryString returns has one key=value piece for each
\* entry of the mapping whose value is neither null nor undefined (0, false
\* and the empty string included) and none for the others, in the order of
\* the mapping, and each piece decodes to the key and the value (as a
\* string) of its entry.
C15_QueryStringRoundTrip ==
    returned.fn = "buildQueryString" =>
        LET pieces == PiecesOf(returned.value.s)
            kept   == SelectSeq(params, IsSet)
        IN  /\ Len(pieces) = Len(kept)
            /\ \A i \in 1..Len(kept) :
                  /\ indexOf(pieces[i], "=") > 0
                  /\ DecodedPiece(pieces[i]).key = kept[i].key
                  /\ DecodedPiece(pieces[i]).value = JSString(kept[i].value)

C15_Witness ==
    /\ returned.fn = "buildQueryString"
    /\ params = <<Entry("q", Undef), Entry("maxResults", Num(0)),
                  Entry("k=&", Str("a=b&c d"))>>
    /\ returned.value = Str("maxResults=0&k%3D%26=a%3Db%26c%20d")

(* C16 *)

\* C16: format applied to the record format returned gives that record
\* again, field by field.
C16_FormatIdempotent ==
    returned.fn = "format again" => returned.value = returned.arg

(* C17 *)

\* the clock times of the instants of the model, in the UTC time zone
ClockOf(v) ==
    CASE v = Str("2026-01-05T09:30:00Z") -> "9:30 AM"
      [] v = Str("2026-01-05T13:00:00Z") -> "1:00 PM"
      [] v = Str("2026-01-06")           -> "12:00 AM"
      [] v = Undef                       -> ""

\* C17: isAllDay is true when start.dateTime is absent and false when it is
\* set; the normalized start is start.dateTime when present, else
\* start.date; formatTimeRange returns "All day" exactly for the all-day
\* events and "<start time> - <end time>" for the others.
C17_AllDayClassification ==
    LET dateTime == Get(Get(event, "start"), "dateTime")
        date     == Get(Get(event, "start"), "date")
        end      == Or(Get(Get(event, "end"), "dateTime"),
                       Get(Get(event, "end"), "date"))
    IN  /\ returned.fn = "format" =>
              /\ Get(returned.value, "isAllDay")
                    = (IF dateTime = Undef THEN JSTrue ELSE JSFalse)
              /\ Get(returned.value, "start")
                    = (IF dateTime = Undef THEN date ELSE dateTime)
        /\ returned.fn = "formatTimeRange" =>
              /\ (returned.value = Str("All day")) <=> (dateTime = Undef)
              /\ dateTime # Undef =>
                    returned.value
                        = Str(ClockOf(dateTime) \o " - " \o ClockOf(end))

C17_Witness ==
    /\ returned.fn = "formatTimeRange"
    /\ Get(Get(event, "start"), "dateTime") = Str("2026-01-05T09:30:00Z")
    /\ Get(Get(event, "end"), "dateTime") = Str("2026-01-05T13:00:00Z")
    /\ returned.value = Str("9:30 AM - 1:00 PM")

(* C18 *)

\* one of the continuation lines opens with the icon
HasLine(lines, icon) == \E i \in 2..Len(lines) : includes(lines[i], icon)

Count(b) == IF b THEN 1 ELSE 0

\* C18: the summary formatSummary returns has a location line exactly when
\* showLocation is set and the event has a non-empty location, an attendee
\* line exactly when showAttendees is set and the event has attendees, a
\* status line exactly when showStatus is set and the event has a status
\* other than confirmed, and no other continuation line.
C18_ContinuationLines ==
    returned.fn = "formatSummary" =>
        LET lines    == splitAll(returned.value.s, "\n")
            location == Get(event, "location")
            status   == Get(event, "status")
            guests   == Get(event, "attendees")
            wantLocation  == Truthy(display.showLocation) /\ Truthy(location)
            wantAttendees == /\ Truthy(display.showAttendees)
                             /\ guests # Undef /\ guests.n > 0
            wantStatus    == /\ Truthy(display.showStatus)
                             /\ status # Undef /\ status # Str("confirmed")
        IN  /\ HasLine(lines, LocationIcon) <=> wantLocation
            /\ HasLine(lines, AttendeesIcon) <=> wantAttendees
            /\ HasLine(lines, StatusIcon) <=> wantStatus
            /\ Len(lines) = 1 + Count(wantLocation) + Count(wantAttendees)
                               + Count(wantStatus)

(* C19 *)

\* C19: the request of today asks for the window from local midnight to the
\* next local midnight and the request of upcoming (and list) for the window
\* from now to now + days; each sends the maxResults the handler supplies in
\* opts: the number given with --max, or 50 for today and 100 for upcoming.
C19_WindowAndMaxResults ==
    \A c \in FetchCalls :
        LET parts == QueryPartsOf(c.url)
        IN  /\ handler = "showToday" =>
                  {"timeMin=DAY%2B0D", "timeMax=DAY%2B1D",
                   "maxResults=" \o JSString(maxResultsOf(parsed.options, 50))}
                      \subseteq parts
            /\ handler = "showUpcoming" =>
                  {"timeMin=NOW",
                   "timeMax=" \o encodeString(timeToString(Time("now", daysOf(parsed).n))),
                   "maxResults=" \o JSString(maxResultsOf(parsed.options, 100))}
                      \subseteq parts

====
